---- MODULE Spec2Model ----
(***************************************************************************)
(* Scrolling capture of clipshot: the tick-driven session controller       *)
(* (src/src/scroll_capture.rs), its host callbacks (src/src/app.rs) and    *)
(* the frame stitcher with its overlap detectors (src/src/stitch.rs).      *)
(*                                                                         *)
(* Pixel data.  A captured image shows a window of a scrollable document.  *)
(* Every pixel row of a document is made of NBlocks column blocks of equal *)
(* width; inside a block all pixels have one colour, and each of the three *)
(* colour channels is 0 or 255.  A row is named by its row id, whose bits  *)
(* are the channel values (bit 3*b+ch is channel ch of block b).  The code *)
(* reads rows column by column; on such rows the column loops have the     *)
(* closed forms given by CountMultiples, for any width.                    *)
(***************************************************************************)
EXTENDS Integers, Sequences, FiniteSets, TLC

VARIABLES
    scn,                  \* the session's construction parameters and its world
    top,                  \* world: document row shown at the top of the selection
    frames,               \* ScrollCaptureState.frames
    frame_rgba,           \* ScrollCaptureState.frame_rgba
    step_count,           \* ScrollCaptureState.step_count
    phase,                \* ScrollCaptureState.phase
    scroll_capture_state, \* AppDelegate ivar: "Some" while a session exists
    timer,                \* the session's NSTimer: "valid" or "invalid"
    stitched,             \* what stop_scroll_capture got from stitch_frames
    stitch_calls,         \* number of stitch_frames calls of the session
    editor_window,        \* AppDelegate ivar: "Some" while an editor window is open
    ticks,                \* history: number of tick() calls of the session
    scrolls,              \* history: number of simulate_scroll calls
    last,                 \* history: the last tick() call, with its pre-state
                          \* (phase "hotkey": the stop hotkey came after it)
    ctl_overlaps,         \* history: overlap computed by tick for each stored frame
    log,                  \* history: every frame a tick stored, in order
    since_store,          \* history: scrolls injected since the last stored frame,
                          \* counted up to MaxSince
    probe,                \* input and result of one call of a pure function
    recording_state,      \* AppDelegate ivar: "Some" while a recording exists
    recording_mode,       \* AppDelegate ivar: the overlay selects a recording region
    scroll_capture_mode,  \* AppDelegate ivar: the overlay selects a scroll capture region
    overlay               \* the selection overlay window: "shown" or "hidden"

vars == <<scn, top, frames, frame_rgba, step_count, phase, scroll_capture_state,
          timer, stitched, stitch_calls, editor_window, ticks, scrolls, last,
          ctl_overlaps, log, since_store, probe, recording_state, recording_mode,
          scroll_capture_mode, overlay>>

----------------------------------------------------------------------------
(* Bounds of the model *)

ScenarioMaxSteps == 3
TinyHeights == 2
ProbeHeights == 34
ProbeGaps == 2
MaxSince == 2
EstBack == 6

NBlocks == 4
DefaultMaxSteps == 50

Min2(a, b) == IF a < b THEN a ELSE b
Max2(a, b) == IF a > b THEN a ELSE b
Abs(x) == IF x < 0 THEN -x ELSE x
SatSub(a, b) == IF a > b THEN a - b ELSE 0

MinOf(S) == CHOOSE x \in S : \A y \in S : x <= y
MaxOf(S) == CHOOSE x \in S : \A y \in S : x >= y

RECURSIVE SumTo(_, _)
\* sum of F[r] for r in 0..n-1
SumTo(F, n) == IF n = 0 THEN 0 ELSE F[n - 1] + SumTo(F, n - 1)

----------------------------------------------------------------------------
(* Documents, images and RGBA buffers *)

UniqueDoc(len) == [kind |-> "unique", p |-> 0, len |-> len]
BlankDoc(len) == [kind |-> "blank", p |-> 0, len |-> len]
PeriodicDoc(p, len) == [kind |-> "periodic", p |-> p, len |-> len]
\* a document of unlike rows with row p changed: to a row unlike any other
\* (patched), or to its own negative (inverted)
PatchedDoc(p, len) == [kind |-> "patched", p |-> p, len |-> len]
InvertedDoc(p, len) == [kind |-> "inverted", p |-> p, len |-> len]
\* a document of unlike rows with every p-th row changed to a row unlike any
\* other
StripedDoc(p, len) == [kind |-> "striped", p |-> p, len |-> len]
\* a document whose rows repeat with period p, with row `row` changed to a row
\* unlike any other
PeriodicPatchedDoc(p, row, len) ==
    [kind |-> "periodic_patched", p |-> p, len |-> len, row |-> row]

\* a document of unlike rows that differ in the columns right of the first
\* block only; with `row` > 0, the first block of one channel is changed in
\* the `row` rows from row p on (rendering noise)
NoisyDoc(p, row, len) == [kind |-> "noisy", p |-> p, len |-> len, row |-> row]

\* the two frames of height p of a page scrolled by 2 rows: with row = 0 the
\* first frame, unlike rows whose last p/6 rows repeat its rows 2, 3, ...;
\* with row = 1 the second frame, the first frame 2 rows further down with a
\* region of 6 rows on either side of the reference row redrawn
EchoDoc(p, row, len) == [kind |-> "echo", p |-> p, len |-> len, row |-> row]

\* row id of document row i
DocRow(doc, i) ==
    CASE doc.kind = "unique" -> i + 1
      [] doc.kind = "blank" -> 0
      [] doc.kind = "periodic" -> 1 + (i % doc.p)
      [] doc.kind = "patched" -> IF i = doc.p THEN doc.len + 1 ELSE i + 1
      [] doc.kind = "striped" -> IF i % doc.p = 0 THEN doc.len + 1 + i ELSE i + 1
      [] doc.kind = "periodic_patched" -> IF i = doc.row THEN doc.p + 1 ELSE 1 + (i % doc.p)
      [] doc.kind = "noisy" ->
            8 * (i + 1) + (IF doc.p <= i /\ i < doc.p + doc.row THEN 1 ELSE 0)
      [] doc.kind = "echo" ->
            LET ref_row == doc.p - doc.p \div 6
                first(r) == IF ref_row <= r /\ r < doc.p THEN r - ref_row + 3 ELSE r + 1
            IN IF doc.row = 0 THEN first(i)
               ELSE IF i # ref_row - 2 /\ ref_row - 8 <= i /\ i <= ref_row + 4
               THEN (2 ^ (3 * NBlocks)) - 1 - (i + 1)
               ELSE first(i + 2)
      [] doc.kind = "inverted" ->
            IF i = doc.p THEN (2 ^ (3 * NBlocks)) - 1 - (i + 1) ELSE i + 1

\* channel ch (0..2) of the pixels of block b in the row with this id
Px(id, b, ch) == 255 * ((id \div (2 ^ (3 * b + ch))) % 2)

\* first and one-past-last column of block b in a row of `width` pixels
BlockLo(b, width) == (b * width) \div NBlocks
BlockHi(b, width) == ((b + 1) * width) \div NBlocks

\* number of multiples of s in lo..hi-1
CountMultiples(lo, hi, s) ==
    IF hi <= lo THEN 0 ELSE ((hi + s - 1) \div s) - ((lo + s - 1) \div s)

\* Option<T>: None, or Some(x) with the value x = Some(x)[1]
None == <<>>
Some(x) == <<x>>

\* A CGImage: w x h pixels showing rows top..top+h-1 of doc.
Image(doc, t, w, h) == [doc |-> doc, top |-> t, w |-> w, h |-> h]

\* CGImage::with_image_in_rect for a rect of the image's width: rows y..y+rh-1
with_image_in_rect(img, y, rh) ==
    IF y >= img.h \/ rh = 0 \/ img.w = 0 THEN None
    ELSE Some(Image(img.doc, img.top + y, img.w, Min2(rh, img.h - y)))

\* A Vec<u8> of RGBA bytes, top row first: `len` bytes, bpr bytes per row.
cgimage_to_rgba(img) ==
    [doc |-> img.doc, top |-> img.top, bpr |-> img.w * 4, len |-> img.w * img.h * 4]

\* row id of the row that holds byte offset row*bpr of the buffer
BufRow(data, row) == DocRow(data.doc, data.top + row)

----------------------------------------------------------------------------
(* scroll_capture.rs: estimate_overlap *)

\* Sum over the sampled pixels of one row pair of the absolute channel
\* differences: the `while col < width { ... col += step }` loop, with the
\* sampled columns restricted to 0..limit-1, on block-constant rows.
RowSad(ida, idb, width, limit, step) ==
    LET blk == [b \in 0..(NBlocks - 1) |->
                  CountMultiples(BlockLo(b, width), Min2(BlockHi(b, width), limit), step)
                  * (Abs(Px(ida, b, 0) - Px(idb, b, 0))
                     + Abs(Px(ida, b, 1) - Px(idb, b, 1))
                     + Abs(Px(ida, b, 2) - Px(idb, b, 2)))]
    IN SumTo(blk, NBlocks)

\* number of pixels one row contributes to `count`
RowSamples(width, limit, step) == CountMultiples(0, Min2(width, limit), step)

\* `pp + 2 < data.len()` for every sampled pixel of this row of the buffer
RowInBuf(data, row) == data.bpr > 0 /\ (row + 1) * data.bpr <= data.len

\* avg < 5.0, with avg = sad_sum / (count * 3)
est_matches(sad_sum, count) == count > 0 /\ sad_sum < 5 * (count * 3)

\* dist_from_bottom + candidate
est_result_mut(dist_from_bottom, candidate) == candidate
est_result(dist_from_bottom, candidate) == dist_from_bottom + candidate

estimate_overlap(prev, curr, frame_height) ==
    LET width == prev.w
        strip_height == Min2(15, frame_height)
        strip_start == frame_height - strip_height
        prev_strip == with_image_in_rect(prev, strip_start, strip_height)
        curr_top == with_image_in_rect(curr, 0, frame_height)
    IN IF width = 0 \/ frame_height < 15 THEN 0
       ELSE IF prev_strip = None \/ curr_top = None THEN 0
       ELSE
        LET data_prev == cgimage_to_rgba(prev_strip[1])
            data_curr == cgimage_to_rgba(curr_top[1])
            ref_local_start == SatSub(strip_height, 10)
            ref_count == Min2(5, strip_height - ref_local_start)
            dist_from_bottom == strip_height - ref_local_start
            search_limit == SatSub(frame_height, ref_count)
            InBoth(candidate, r) ==
                RowInBuf(data_prev, ref_local_start + r) /\ RowInBuf(data_curr, candidate + r)
            sad_sum(candidate) ==
                SumTo([r \in 0..(ref_count - 1) |->
                        IF InBoth(candidate, r)
                        THEN RowSad(BufRow(data_prev, ref_local_start + r),
                                    BufRow(data_curr, candidate + r), width, width, 8)
                        ELSE 0], ref_count)
            count(candidate) ==
                SumTo([r \in 0..(ref_count - 1) |->
                        IF InBoth(candidate, r) THEN RowSamples(width, width, 8) ELSE 0],
                      ref_count)
            hits == {c \in 0..search_limit : est_matches(sad_sum(c), count(c))}
        IN IF hits = {} THEN 0 ELSE est_result(dist_from_bottom, MinOf(hits))

----------------------------------------------------------------------------
(* stitch.rs: hash_row, find_overlap, find_overlap_sad *)

\* The u64 fingerprint of the bytes [byte_start, byte_end) of one row.  The
\* hasher is taken to be collision free: the fingerprint is the hashed bytes
\* themselves, here the colours of the blocks that reach into the byte range
\* (alpha is 255 everywhere).  A range that ends past the buffer hashes nothing.
hash_row(data, row, bpr, byte_start, byte_end) ==
    IF row * bpr + byte_end <= data.len
    THEN [b \in 0..(NBlocks - 1) |->
            IF BlockLo(b, bpr \div 4) * 4 < byte_end
               /\ BlockHi(b, bpr \div 4) * 4 > byte_start
            THEN <<Px(BufRow(data, row), b, 0), Px(BufRow(data, row), b, 1),
                   Px(BufRow(data, row), b, 2)>>
            ELSE <<>>]
    ELSE <<>>

\* longest run of consecutive members of `match` in 0..k-1: the runs are the
\* gaps between consecutive non-members
LongestRun(k, match) ==
    LET mis == (0..(k - 1)) \ match
        NextMis(m) == MinOf({x \in mis : x > m} \cup {k})
    IN MaxOf({NextMis(m) - m - 1 : m \in mis \cup {-1}})

\* the scan of one candidate's band: `match` is the set of rows r of the band
\* with ha == hb
band_score(candidate_k, match) ==
    [overlap |-> candidate_k,
     run |-> LongestRun(candidate_k, match),
     matches |-> Cardinality(match),
     rate |-> (Cardinality(match) * 1000) \div candidate_k]

\* rate > best_rate || (rate == best_rate && longest_run > best_run)
better_candidate_mut(rate, run, best) ==
    run > best.run \/ (run = best.run /\ rate > best.rate)
better_candidate(rate, run, best) ==
    rate > best.rate \/ (rate = best.rate /\ run > best.run)

\* the `for (j, &h) in hashes_b` loop over the rows j whose hash is ref_hash,
\* in ascending order; score[j] is None or the candidate's band scan.  The
\* loop replaces its best only by a better candidate, so it ends with the
\* first candidate that no candidate is better than, if that one is better
\* than the initial best.
best_candidate(js, score, best) ==
    LET scans == {<<j, score[j]>> : j \in js}
        scored == {<<c[1], c[2][1]>> : c \in {a \in scans : a[2] # None}}
        unbeaten == {c \in scored :
                       \A d \in scored : ~better_candidate(d[2].rate, d[2].run, c[2])}
        first == CHOOSE c \in unbeaten : \A d \in unbeaten : c[1] <= d[1]
    IN IF unbeaten = {} THEN best
       ELSE IF better_candidate(first[2].rate, first[2].run, best) THEN first[2]
       ELSE best

\* best_matches < min_matches && best_run < min_run
tier1_rejected_mut(best, min_run, min_matches) ==
    best.matches < min_matches \/ best.run < min_run
tier1_rejected(best, min_run, min_matches) ==
    best.matches < min_matches /\ best.run < min_run

\* if overlap >= height { return height; } overlap
cap_overlap_mut(overlap, height) == overlap
cap_overlap(overlap, height) == IF overlap >= height THEN height ELSE overlap

\* a[1]/a[2] <= b[1]/b[2], for averages <<sad_sum, pixel_count>>
AvgLeq(a, b) == IF a[2] = b[2] THEN a[1] <= b[1] ELSE a[1] * b[2] <= b[1] * a[2]

\* best_sad > 15.0, with best_sad = sad_sum / (pixel_count * 3)
sad_rejected_mut(sad_sum, pixel_count) == sad_sum > 150 * (pixel_count * 3)
sad_rejected(sad_sum, pixel_count) == sad_sum > 15 * (pixel_count * 3)

\* find_overlap_sad, lines 339-360: from the scored candidates
\* <<candidate, sad_sum, pixel_count>> to the overlap
sad_pick(scored, height, ref_start) ==
    LET avgs == {<<sc[2], sc[3]>> : sc \in scored}
        \* the least average
        least == CHOOSE v \in avgs : \A u \in avgs : AvgLeq(v, u)
        \* `avg < best_sad` keeps the first candidate of the least average
        best_pos == MinOf({sc[1] : sc \in {t \in scored : AvgLeq(<<t[2], t[3]>>, least)}})
        overlap == height - ref_start + best_pos
    IN IF scored = {} THEN 0
       ELSE IF sad_rejected(least[1], least[2]) THEN 0
       ELSE cap_overlap(overlap, height)

\* find_overlap_sad, lines 300-337: slide the strip over B
sad_scan(data_a, data_b, width, byte_end, strip_rows, ref_start, search_limit) ==
    LET InBoth(candidate, r) ==
            RowInBuf(data_a, ref_start + r) /\ RowInBuf(data_b, candidate + r)
        sad_sum(candidate) ==
            SumTo([r \in 0..(strip_rows - 1) |->
                    IF InBoth(candidate, r)
                    THEN RowSad(BufRow(data_a, ref_start + r),
                                BufRow(data_b, candidate + r), width, byte_end \div 4, 4)
                    ELSE 0], strip_rows)
        pixel_count(candidate) ==
            SumTo([r \in 0..(strip_rows - 1) |->
                    IF InBoth(candidate, r)
                    THEN RowSamples(width, byte_end \div 4, 4) ELSE 0], strip_rows)
    IN {sc \in {<<c, sad_sum(c), pixel_count(c)>> : c \in 0..search_limit} : sc[3] > 0}

\* ref_center.saturating_sub(strip_rows / 2).min(height - strip_rows)
sad_ref_start(height, strip_rows) ==
    Min2(SatSub(height - height \div 6, strip_rows \div 2), height - strip_rows)

find_overlap_sad(data_a, data_b, width, height) ==
    IF SatSub(width, width \div 20) * 4 <= 0 THEN 0
    ELSE IF Min2(10, height \div 4) = 0 THEN 0
    ELSE sad_pick(sad_scan(data_a, data_b, width, SatSub(width, width \div 20) * 4,
                           Min2(10, height \div 4),
                           sad_ref_start(height, Min2(10, height \div 4)),
                           SatSub((height * 19) \div 20, Min2(10, height \div 4))),
                  height, sad_ref_start(height, Min2(10, height \div 4)))

\* let candidate_k = j + ref_offset_from_bottom
candidate_overlap_mut(j, ref_offset_from_bottom) == j + 1
candidate_overlap(j, ref_offset_from_bottom) == j + ref_offset_from_bottom

\* find_overlap, lines 150-243: the best candidate of the row-hash search
tier1_best(data_a, data_b, bpr, byte_start, byte_end, height) ==
    LET search_range == (height * 19) \div 20
        a_start_row == height - search_range
        hashes_a == [i \in 0..(search_range - 1) |->
                       hash_row(data_a, a_start_row + i, bpr, byte_start, byte_end)]
        hashes_b == [i \in 0..(search_range - 1) |->
                       hash_row(data_b, i, bpr, byte_start, byte_end)]
        ref_offset_from_bottom == height \div 6
        ref_row_in_a == height - ref_offset_from_bottom
        ref_idx_in_hashes_a == ref_row_in_a - a_start_row
        ref_hash == hashes_a[ref_idx_in_hashes_a]
        Score(j) ==
            LET candidate_k == candidate_overlap(j, ref_offset_from_bottom)
                a_overlap_start == height - candidate_k
                ha(r) == IF a_overlap_start + r >= a_start_row
                         THEN hashes_a[a_overlap_start + r - a_start_row]
                         ELSE hash_row(data_a, a_overlap_start + r, bpr,
                                       byte_start, byte_end)
                hb(r) == IF r < search_range
                         THEN hashes_b[r]
                         ELSE hash_row(data_b, r, bpr, byte_start, byte_end)
            IN IF candidate_k = 0 \/ candidate_k > height THEN None
               ELSE Some(band_score(candidate_k,
                                    {r \in 0..(candidate_k - 1) : ha(r) = hb(r)}))
    IN best_candidate({j \in 0..(search_range - 1) : hashes_b[j] = ref_hash},
                      [j \in {i \in 0..(search_range - 1) : hashes_b[i] = ref_hash} |-> Score(j)],
                      [overlap |-> 0, run |-> 0, matches |-> 0, rate |-> 0])

\* find_overlap, lines 245-269: accept the best candidate or fall back
tier1_accept(best, data_a, data_b, width, height) ==
    LET min_run == 8
        min_match_fraction == 4
        min_matches == Max2(min_run, best.overlap \div min_match_fraction)
    IN IF tier1_rejected(best, min_run, min_matches)
       THEN find_overlap_sad(data_a, data_b, width, height)
       ELSE cap_overlap(best.overlap, height)

find_overlap(data_a, data_b, width, height) ==
    IF data_a.len = 0 \/ data_b.len = 0 \/ width = 0 \/ height < 32 THEN 0
    ELSE IF SatSub(width, width \div 20) * 4 <= 0 THEN 0
    ELSE tier1_accept(tier1_best(data_a, data_b, width * 4, 0,
                                 SatSub(width, width \div 20) * 4, height),
                      data_a, data_b, width, height)

----------------------------------------------------------------------------
(* stitch.rs: stitch_frames *)

\* frame_height.saturating_sub(overlap)
addition_of_mut(frame_height, overlap) == frame_height
addition_of(frame_height, overlap) == SatSub(frame_height, overlap)

\* total_height == 0 || frame_width == 0
empty_canvas_mut(total_height, frame_width) == total_height = 0
empty_canvas(total_height, frame_width) == total_height = 0 \/ frame_width = 0

\* src[src_start..src_end]: the rows of the next frame copied to the canvas
copied_rows_mut(overlap, addition) == [from |-> 0, to |-> addition]
copied_rows(overlap, addition) == [from |-> overlap, to |-> overlap + addition]

\* stitch_frames, lines 42-82: canvas height and composition.  segs lists the
\* copies into the canvas in order: rows from..to-1 of frame number `frame`;
\* current_row is the write cursor after the last copy.
stitch_compose(frame_width, frame_height, n, overlaps) ==
    LET additions == [i \in 0..(n - 2) |-> addition_of(frame_height, overlaps[i + 1])]
        total_height == frame_height + SumTo(additions, n - 1)
        copied == SelectSeq([i \in 1..(n - 1) |->
                               [frame |-> i + 1,
                                from |-> copied_rows(overlaps[i], additions[i - 1]).from,
                                to |-> copied_rows(overlaps[i], additions[i - 1]).to]],
                            LAMBDA sg : sg.to - sg.from # 0)
    IN IF empty_canvas(total_height, frame_width) THEN None
       ELSE Some([width |-> frame_width, height |-> total_height, overlaps |-> overlaps,
                  segs |-> <<[frame |-> 1, from |-> 0, to |-> frame_height]>> \o copied,
                  current_row |-> frame_height
                      + SumTo([i \in 0..(Len(copied) - 1) |->
                                 copied[i + 1].to - copied[i + 1].from], Len(copied))])

\* Some([width, height, overlaps, segs, current_row]) or None
stitch_frames(fs, rgba_data) ==
    IF Len(fs) = 0 \/ Len(rgba_data) # Len(fs) THEN None
    ELSE IF Len(fs) = 1
    THEN \* copy_cgimage
         Some([width |-> fs[1].w, height |-> fs[1].h, overlaps |-> <<>>,
               segs |-> <<[frame |-> 1, from |-> 0, to |-> fs[1].h]>>,
               current_row |-> fs[1].h])
    ELSE stitch_compose(fs[1].w, fs[1].h, Len(fs),
                        [i \in 1..(Len(fs) - 1) |->
                           find_overlap(rgba_data[i], rgba_data[i + 1], fs[1].w, fs[1].h)])

----------------------------------------------------------------------------
(* Scenarios: what a session is constructed with, and the world it captures *)

\* selection (logical points), scale_factor, max_steps; the document behind
\* the selection; the k-th scroll moves the document by script[k] pixel rows,
\* later ones by the requested amount or one of `extra`; `faults` tells
\* whether the capture service and the pixel conversion may fail.
Scenario(name, w, h, sf, ms, doc, script, extra, faults) ==
    [name |-> name, selection |-> [w |-> w, h |-> h], scale_factor |-> sf,
     max_steps |-> ms, doc |-> doc, script |-> script, extra |-> extra,
     faults |-> faults]

Scenarios ==
    {Scenario("small", 20, 16, 2, ScenarioMaxSteps, UniqueDoc(80), <<>>,
              {2, 6, 7, 24}, FALSE),
     Scenario("faulty", 20, 16, 2, ScenarioMaxSteps, UniqueDoc(80), <<>>, {}, TRUE),
     Scenario("resized", 20, 16, 2, ScenarioMaxSteps, UniqueDoc(200), <<>>, {}, FALSE),
     Scenario("blank", 20, 16, 2, ScenarioMaxSteps, BlankDoc(32), <<>>, {}, FALSE),
     Scenario("periodic", 20, 16, 2, ScenarioMaxSteps, PeriodicDoc(6, 80), <<>>, {}, FALSE),
     Scenario("retina_pt", 800, 600, 2, DefaultMaxSteps, UniqueDoc(2100), <<800, 100>>,
              {}, FALSE),
     Scenario("retina_px", 800, 600, 2, DefaultMaxSteps, UniqueDoc(2850), <<1000, 650>>,
              {}, FALSE)}
    \cup {Scenario("tiny", 20, h, 1, DefaultMaxSteps, UniqueDoc(h), <<>>, {}, TRUE) :
            h \in 0..TinyHeights}

selection == scn.selection
scale_factor == scn.scale_factor
max_steps == scn.max_steps

\* (selection.size * scale_factor) as usize
pixel_w == selection.w * scale_factor
pixel_h == selection.h * scale_factor

----------------------------------------------------------------------------
(* scroll_capture.rs: ScrollCaptureState *)

\* -(self.selection.size.height * 2.0 / 3.0) as i32
scroll_amount(sel_h) == -((sel_h * 2) \div 3)

\* self.step_count > self.max_steps
steps_exhausted_late(sc, ms) == sc > ms + 1
steps_exhausted_mut(sc, ms) == sc >= ms
steps_exhausted(sc, ms) == sc > ms

\* overlap >= frame_height * 19 / 20
stop_duplicate_mut(overlap, frame_height) == overlap > (frame_height * 19) \div 20
stop_duplicate(overlap, frame_height) == overlap >= (frame_height * 19) \div 20

\* overlap > frame_height * 4 / 5
stop_near_end(overlap, frame_height) == overlap > (frame_height * 4) \div 5

\* capture_and_crop, given what capture_display_excluding returned: the
\* display image cropped to the selection shows document rows top.. of the
\* world; full is the part of the display image right of and below the
\* selection's origin, and with_image_in_rect cuts the crop rect to it
capture_and_crop(full) ==
    IF full = None THEN None
    ELSE IF pixel_w = 0 \/ pixel_h = 0 THEN None
    ELSE IF full[1].w = 0 \/ full[1].h = 0 THEN None
    ELSE Some(Image(scn.doc, top, Min2(pixel_w, full[1].w), Min2(pixel_h, full[1].h)))

\* The world's answers to a scroll of `amount` points posted at the selection:
\* the new document row at the top of the selection.
ScrollTargets(amount) ==
    LET k == scrolls + 1
        moves == IF k <= Len(scn.script) THEN {scn.script[k]}
                 ELSE {(-amount) * scale_factor} \cup scn.extra
    IN {Min2(top + d, SatSub(scn.doc.len, pixel_h)) : d \in moves}

\* the session fields tick() reads and writes
Session == [frames |-> frames, frame_rgba |-> frame_rgba, step_count |-> step_count,
            phase |-> phase]

\* What one tick() call did: the session after it (s), its return value, and
\* for the history whether it scrolled, got an image, converted it, the
\* overlap it computed (-1: none) and the frame it stored (None: none).
TickResult(s, ret, scrolled, captured, converted, overlap, stored) ==
    [s |-> s, ret |-> ret, scrolled |-> scrolled, captured |-> captured,
     converted |-> converted, overlap |-> overlap, stored |-> stored]

\* tick(), Phase::Scroll
tick_scroll(s, ms) ==
    LET counted == [s EXCEPT !.step_count = s.step_count + 1]
    IN IF steps_exhausted(counted.step_count, ms)
       THEN TickResult(counted, FALSE, FALSE, FALSE, FALSE, -1, None)
       ELSE TickResult([counted EXCEPT !.phase = "Capture"], TRUE, TRUE, FALSE, FALSE, -1,
                       None)

\* tick(), Phase::Capture, lines 105-122: no image, or no RGBA buffer
capture_failed_stay(s, captured) ==
    TickResult(s, TRUE, FALSE, captured, FALSE, -1, None)
capture_failed_mut(s, captured) ==
    TickResult([s EXCEPT !.phase = "Scroll", !.step_count = s.step_count + 1],
               TRUE, FALSE, captured, FALSE, -1, None)
capture_failed(s, captured) ==
    TickResult([s EXCEPT !.phase = "Scroll"], TRUE, FALSE, captured, FALSE, -1, None)

\* self.frames.push(frame); self.frame_rgba.push(rgba)
push_frame_mut(s, frame, rgba) ==
    [s EXCEPT !.frames = <<frame>> \o s.frames, !.frame_rgba = Append(s.frame_rgba, rgba)]
push_frame(s, frame, rgba) ==
    [s EXCEPT !.frames = Append(s.frames, frame), !.frame_rgba = Append(s.frame_rgba, rgba)]

\* tick(), Phase::Capture, lines 124-152, with the overlap against the last
\* stored frame (if there is one) already estimated
tick_decide(s, frame, rgba, frame_height, overlap) ==
    IF Len(s.frames) > 0 /\ stop_duplicate(overlap, frame_height)
    THEN TickResult(s, FALSE, FALSE, TRUE, TRUE, overlap, None)
    ELSE IF Len(s.frames) > 0 /\ stop_near_end(overlap, frame_height)
    THEN TickResult(push_frame(s, frame, rgba), FALSE, FALSE, TRUE, TRUE, overlap,
                    Some(frame))
    ELSE TickResult([push_frame(s, frame, rgba) EXCEPT !.phase = "Scroll"],
                    TRUE, FALSE, TRUE, TRUE, overlap, Some(frame))

\* tick(), Phase::Capture: got is capture_and_crop's answer, conv tells whether
\* cgimage_to_rgba succeeds
tick_capture(s, got, conv) ==
    IF got = None THEN capture_failed(s, FALSE)
    ELSE IF conv = "Err" THEN capture_failed(s, TRUE)
    ELSE IF Len(s.frames) = 0
    THEN tick_decide(s, got[1], cgimage_to_rgba(got[1]), 0, -1)
    ELSE tick_decide(s, got[1], cgimage_to_rgba(got[1]), s.frames[Len(s.frames)].h,
                     estimate_overlap(s.frames[Len(s.frames)], got[1],
                                      s.frames[Len(s.frames)].h))

NoTick == [phase |-> "none", captured |-> FALSE, converted |-> FALSE, scrolled |-> FALSE,
           overlap |-> -1, ret |-> TRUE, frames |-> <<>>, frame_rgba |-> <<>>,
           step_count |-> 0, top |-> 0, scrolls |-> 0, since_store |-> 0]

NoProbe == [fn |-> "none"]

host_vars == <<scroll_capture_state, timer, stitched, stitch_calls, editor_window>>

app_vars == <<recording_state, recording_mode, scroll_capture_mode, overlay>>

\* AppDelegate::new: no recording, no mode set, the overlay not shown
AppIdle ==
    /\ recording_state = "None"
    /\ recording_mode = FALSE
    /\ scroll_capture_mode = FALSE
    /\ overlay = "hidden"

\* ScrollCaptureState::new, as start_scroll_capture_with_selection stores it
\* together with its repeating timer; the hotkey that leads here is refused
\* while an editor is open (handle_scroll_capture_hotkey)
start_scroll_capture_with_selection ==
    /\ scroll_capture_state = "None"
    /\ editor_window = "None"
    /\ UNCHANGED app_vars
    /\ frames' = <<>>
    /\ frame_rgba' = <<>>
    /\ step_count' = 0
    /\ phase' = "Capture"
    /\ scroll_capture_state' = "Some"
    /\ timer' = "valid"
    /\ stitched' = None
    /\ stitch_calls' = 0
    /\ top' = 0
    /\ ticks' = 0
    /\ scrolls' = 0
    /\ last' = NoTick
    /\ ctl_overlaps' = <<>>
    /\ since_store' = 0
    /\ log' = <<>>
    /\ UNCHANGED <<scn, probe, editor_window>>

\* what EditorWindow::open_with_decoder may answer
EditorAnswers == {"Ok", "Err"}

\* if frame_count == 0 { return; }
no_frames_mut(frame_count) == frame_count <= 1
no_frames(frame_count) == frame_count = 0

\* timer.invalidate()
invalidate_mut(t) == t
invalidate(t) == "invalid"

\* app.rs stop_scroll_capture, run on the session as the tick left it: the
\* state is taken, its timer invalidated, and its frames, if any, stitched;
\* a stitched image is handed to the editor
stop_scroll_capture ==
    /\ scroll_capture_state' = "None"
    /\ timer' = invalidate(timer)
    /\ IF no_frames(Len(frames'))
       THEN UNCHANGED <<stitched, stitch_calls, editor_window>>
       ELSE /\ stitched' = stitch_frames(frames', frame_rgba')
            /\ stitch_calls' = stitch_calls + 1
            /\ IF stitched' = None
               THEN UNCHANGED editor_window
               ELSE \E opened \in EditorAnswers :
                       editor_window' = IF opened = "Ok" THEN "Some" ELSE editor_window

\* scroll_capture_tick: the session becomes what tick() made of it, and a
\* tick that returned false stops the session in the same callback
ApplyTick(r) ==
    /\ frames' = r.s.frames
    /\ frame_rgba' = r.s.frame_rgba
    /\ step_count' = r.s.step_count
    /\ phase' = r.s.phase
    /\ ticks' = ticks + 1
    /\ scrolls' = IF r.scrolled THEN scrolls + 1 ELSE scrolls
    /\ ctl_overlaps' = IF r.stored # None /\ Len(frames) > 0
                       THEN Append(ctl_overlaps, r.overlap) ELSE ctl_overlaps
    /\ log' = IF r.stored # None THEN Append(log, r.stored[1]) ELSE log
    /\ since_store' = IF r.stored # None THEN 0
                      ELSE IF r.scrolled THEN Min2(since_store + 1, MaxSince)
                      ELSE since_store
    /\ last' = [phase |-> phase, captured |-> r.captured, converted |-> r.converted,
                scrolled |-> r.scrolled, overlap |-> r.overlap, ret |-> r.ret,
                frames |-> frames, frame_rgba |-> frame_rgba,
                step_count |-> step_count, top |-> top, scrolls |-> scrolls,
                since_store |-> since_store]
    /\ IF r.ret THEN UNCHANGED host_vars ELSE stop_scroll_capture
    /\ UNCHANGED <<scn, probe>>
    /\ UNCHANGED app_vars

\* scroll_capture_tick with the session in Phase::Scroll; simulate_scroll
\* moves the world
TickScroll ==
    /\ scroll_capture_state = "Some"
    /\ timer = "valid"
    /\ phase = "Scroll"
    /\ ApplyTick(tick_scroll(Session, max_steps))
    /\ IF scrolls' > scrolls
       THEN \E t \in ScrollTargets(scroll_amount(selection.h)) : top' = t
       ELSE top' = top

\* what capture_display_excluding and cgimage_to_rgba may answer
\* the display image the capture service may return, as the pixels it has
\* right of and below the selection's origin: enough for the selection, or,
\* where the display changes its mode during the session, fewer
Displays ==
    IF scn.name = "resized"
    THEN {[w |-> pixel_w, h |-> pixel_h], [w |-> pixel_w, h |-> pixel_h - 8]}
    ELSE {[w |-> pixel_w, h |-> pixel_h]}

CaptureAnswers == (IF scn.faults THEN {None} ELSE {}) \cup {Some(d) : d \in Displays}
ConvertAnswers == IF scn.faults THEN {"Ok", "Err"} ELSE {"Ok"}

\* scroll_capture_tick with the session in Phase::Capture
TickCapture ==
    /\ scroll_capture_state = "Some"
    /\ timer = "valid"
    /\ phase = "Capture"
    /\ top' = top
    /\ \E full \in CaptureAnswers, conv \in ConvertAnswers :
          /\ full = None => conv = "Ok"
          /\ ApplyTick(tick_capture(Session, capture_and_crop(full), conv))

\* poll_hotkeys: the scroll capture hotkey pressed while a session exists
\* stops it, between two ticks
poll_hotkeys ==
    /\ scroll_capture_state = "Some"
    /\ UNCHANGED <<scn, top, frames, frame_rgba, step_count, phase, ticks, scrolls,
                   ctl_overlaps, log, since_store, probe>>
    /\ last' = [last EXCEPT !.phase = "hotkey"]
    /\ stop_scroll_capture
    /\ UNCHANGED app_vars

\* the editor window is closed by the user
editor_window_closed ==
    /\ editor_window = "Some"
    /\ editor_window' = "None"
    /\ UNCHANGED app_vars
    /\ UNCHANGED <<scn, top, frames, frame_rgba, step_count, phase,
                   scroll_capture_state, timer, stitched, stitch_calls, ticks,
                   scrolls, last, ctl_overlaps, log, since_store, probe>>

Init ==
    /\ scn \in Scenarios
    /\ top = 0
    /\ frames = <<>>
    /\ frame_rgba = <<>>
    /\ step_count = 0
    /\ phase = "Capture"
    /\ scroll_capture_state = "None"
    /\ timer = "invalid"
    /\ stitched = None
    /\ stitch_calls = 0
    /\ editor_window = "None"
    /\ ticks = 0
    /\ scrolls = 0
    /\ last = NoTick
    /\ ctl_overlaps = <<>>
    /\ since_store = 0
    /\ AppIdle
    /\ log = <<>>
    /\ probe = NoProbe

Next ==
    \/ start_scroll_capture_with_selection
    \/ TickScroll
    \/ TickCapture
    \/ poll_hotkeys
    \/ editor_window_closed

Spec == Init /\ [][Next]_vars

----------------------------------------------------------------------------
(* app.rs: the hotkeys, menu items, overlay callbacks and timers of the
   application, around a scroll capture session and a recording *)

session_vars == <<frames, frame_rgba, step_count, phase, top, ticks, scrolls, last,
                  ctl_overlaps, since_store, log>>

\* do_capture: the overlay is shown over a screenshot, if there is one
do_capture ==
    \E shot \in {"Some", "None"} : overlay' = IF shot = "Some" THEN "shown" ELSE overlay

\* stop_recording: the recording is taken and open_editor opens its file
stop_recording ==
    /\ recording_state' = "None"
    /\ \E opened \in EditorAnswers :
          editor_window' = IF opened = "Ok" THEN "Some" ELSE editor_window

\* the record hotkey (poll_hotkeys) or the Start Recording menu item
handle_record_hotkey ==
    /\ IF recording_state = "Some"
       THEN /\ stop_recording
            /\ UNCHANGED <<recording_mode, overlay>>
       ELSE /\ editor_window = "None"
            /\ recording_mode' = TRUE
            /\ do_capture
            /\ UNCHANGED <<recording_state, editor_window>>
    /\ UNCHANGED <<scn, probe, scroll_capture_state, timer, stitched, stitch_calls,
                   scroll_capture_mode>>
    /\ UNCHANGED session_vars

\* the Stop Recording item of the status bar menu
stop_recording_action ==
    /\ recording_state = "Some"
    /\ stop_recording
    /\ UNCHANGED <<scn, probe, scroll_capture_state, timer, stitched, stitch_calls,
                   recording_mode, scroll_capture_mode, overlay>>
    /\ UNCHANGED session_vars

\* the scroll capture hotkey with no session (poll_hotkeys), or the Scroll
\* Capture menu item
handle_scroll_capture_hotkey ==
    /\ recording_state = "None"
    /\ editor_window = "None"
    /\ scroll_capture_mode' = TRUE
    /\ do_capture
    /\ UNCHANGED <<scn, probe, scroll_capture_state, timer, stitched, stitch_calls,
                   editor_window, recording_state, recording_mode>>
    /\ UNCHANGED session_vars

\* the capture hotkey or the Capture menu item
capture_screenshot ==
    /\ recording_state = "None"
    /\ editor_window = "None"
    /\ scroll_capture_state = "None"
    /\ do_capture
    /\ UNCHANGED <<scn, probe, scroll_capture_state, timer, stitched, stitch_calls,
                   editor_window, recording_state, recording_mode, scroll_capture_mode>>
    /\ UNCHANGED session_vars

\* start_scroll_capture_with_selection on the overlay's selection: the mode
\* is cleared, the overlay dismissed, and a new session stored with its timer
scroll_capture_started ==
    /\ scroll_capture_mode' = FALSE
    /\ overlay' = "hidden"
    /\ frames' = <<>>
    /\ frame_rgba' = <<>>
    /\ step_count' = 0
    /\ phase' = "Capture"
    /\ scroll_capture_state' = "Some"
    /\ timer' = "valid"
    /\ stitched' = None
    /\ stitch_calls' = 0
    /\ top' = 0
    /\ ticks' = 0
    /\ scrolls' = 0
    /\ last' = NoTick
    /\ ctl_overlaps' = <<>>
    /\ since_store' = 0
    /\ log' = <<>>
    /\ UNCHANGED <<scn, probe, editor_window, recording_state, recording_mode>>

\* what VideoEncoder::new and encoder.start may answer
EncoderAnswers == {"Ok", "Err"}

\* start_recording_with_selection on the overlay's selection: the mode is
\* cleared, the overlay dismissed, and a recording stored if the encoder
\* starts
start_recording_with_selection ==
    /\ recording_mode' = FALSE
    /\ overlay' = "hidden"
    /\ \E started \in EncoderAnswers :
          recording_state' = IF started = "Ok" THEN "Some" ELSE recording_state
    /\ UNCHANGED <<scn, probe, scroll_capture_state, timer, stitched, stitch_calls,
                   editor_window, scroll_capture_mode>>
    /\ UNCHANGED session_vars

\* selectionChanged from the overlay view, the selection larger than 5 x 5
selection_changed ==
    /\ overlay = "shown"
    /\ scroll_capture_mode \/ recording_mode
    /\ IF scroll_capture_mode THEN scroll_capture_started
       ELSE start_recording_with_selection

\* the toolbar's confirm button, no editor open
action_confirm ==
    /\ overlay = "shown"
    /\ editor_window = "None"
    /\ IF scroll_capture_mode THEN scroll_capture_started
       ELSE /\ overlay' = "hidden"
            /\ UNCHANGED <<scn, probe, scroll_capture_state, timer, stitched,
                           stitch_calls, editor_window, recording_state, recording_mode,
                           scroll_capture_mode>>
            /\ UNCHANGED session_vars

\* the toolbar's cancel button or the Escape key, no editor open
action_cancel ==
    /\ overlay = "shown"
    /\ editor_window = "None"
    /\ recording_mode' = FALSE
    /\ scroll_capture_mode' = FALSE
    /\ overlay' = "hidden"
    /\ UNCHANGED <<scn, probe, scroll_capture_state, timer, stitched, stitch_calls,
                   editor_window, recording_state>>
    /\ UNCHANGED session_vars

InitApp ==
    /\ scn \in {s \in Scenarios : s.name = "small"}
    /\ top = 0
    /\ frames = <<>>
    /\ frame_rgba = <<>>
    /\ step_count = 0
    /\ phase = "Capture"
    /\ scroll_capture_state = "None"
    /\ timer = "invalid"
    /\ stitched = None
    /\ stitch_calls = 0
    /\ editor_window = "None"
    /\ ticks = 0
    /\ scrolls = 0
    /\ last = NoTick
    /\ ctl_overlaps = <<>>
    /\ since_store = 0
    /\ AppIdle
    /\ log = <<>>
    /\ probe = NoProbe

NextApp ==
    \/ handle_record_hotkey
    \/ stop_recording_action
    \/ handle_scroll_capture_hotkey
    \/ capture_screenshot
    \/ selection_changed
    \/ action_confirm
    \/ action_cancel
    \/ TickScroll
    \/ TickCapture
    \/ poll_hotkeys
    \/ editor_window_closed

SpecApp == InitApp /\ [][NextApp]_vars

----------------------------------------------------------------------------
(* find_overlap on a synthetic pair of frames.  kind "overlap": the last k
   rows of A are the first k rows of B and every other row is unlike any
   other; "cursor": such a pair with band row `row` changed in frame `side`;
   "disjoint": B starts `gap` rows below the end of A, no row is shared;
   "same": B is A; "striped": a pair with a true overlap of k rows and every
   row-th row of B's document changed; "periodic": rows that repeat every
   `gap` rows, B starting height - k rows below A, with row `row` of B
   changed; "noisy": B starts height - k rows below A and shows `row` rows of
   A's reference strip, from its third row on, with rendering noise; "back":
   B starts `gap` rows above A; "echo": the two frames of EchoDoc *)

ProbeWidths == {20, 64}

\* widths of the pairs that share no row
DisjointWidths == ProbeWidths \cup {10}

OverlapSizes(height) == {8, 20, height \div 3, (height * 4) \div 5}

\* A and B are windows of one document of unlike rows, B starting
\* height - k rows below A
ProbeA(pr) ==
    CASE pr.kind = "overlap" -> Image(UniqueDoc(2 * pr.height), 0, pr.width, pr.height)
      [] pr.kind = "cursor" ->
            Image(IF pr.side = "A" THEN PatchedDoc(pr.height - pr.k + pr.row, 2 * pr.height)
                  ELSE IF pr.side = "A_inverted"
                  THEN InvertedDoc(pr.height - pr.k + pr.row, 2 * pr.height)
                  ELSE UniqueDoc(2 * pr.height),
                  0, pr.width, pr.height)
      [] pr.kind = "disjoint" ->
            Image(UniqueDoc(2 * pr.height + pr.gap), 0, pr.width, pr.height)
      [] pr.kind = "same" -> Image(UniqueDoc(pr.height), 0, pr.width, pr.height)
      [] pr.kind = "striped" -> Image(UniqueDoc(2 * pr.height), 0, pr.width, pr.height)
      [] pr.kind = "periodic" ->
            Image(PeriodicDoc(pr.gap, 2 * pr.height), 0, pr.width, pr.height)
      [] pr.kind = "noisy" -> Image(NoisyDoc(0, 0, 2 * pr.height), 0, pr.width, pr.height)
      [] pr.kind = "back" -> Image(UniqueDoc(2 * pr.height), pr.gap, pr.width, pr.height)
      [] pr.kind = "echo" -> Image(EchoDoc(pr.height, 0, 2 * pr.height), 0, pr.width, pr.height)

ProbeB(pr) ==
    CASE pr.kind = "overlap" ->
            Image(UniqueDoc(2 * pr.height), pr.height - pr.k, pr.width, pr.height)
      [] pr.kind = "cursor" ->
            Image(IF pr.side = "B" THEN PatchedDoc(pr.height - pr.k + pr.row, 2 * pr.height)
                  ELSE IF pr.side = "B_inverted"
                  THEN InvertedDoc(pr.height - pr.k + pr.row, 2 * pr.height)
                  ELSE UniqueDoc(2 * pr.height),
                  pr.height - pr.k, pr.width, pr.height)
      [] pr.kind = "disjoint" ->
            Image(UniqueDoc(2 * pr.height + pr.gap), pr.height + pr.gap, pr.width,
                  pr.height)
      [] pr.kind = "same" -> Image(UniqueDoc(pr.height), 0, pr.width, pr.height)
      [] pr.kind = "striped" ->
            Image(StripedDoc(pr.row, 2 * pr.height), pr.height - pr.k, pr.width,
                  pr.height)
      [] pr.kind = "back" -> Image(UniqueDoc(2 * pr.height), 0, pr.width, pr.height)
      [] pr.kind = "echo" -> Image(EchoDoc(pr.height, 1, 2 * pr.height), 0, pr.width, pr.height)
      [] pr.kind = "noisy" ->
            Image(NoisyDoc(sad_ref_start(pr.height, Min2(10, pr.height \div 4)) + 2,
                           pr.row, 2 * pr.height),
                  pr.height - pr.k, pr.width, pr.height)
      [] pr.kind = "periodic" ->
            Image(PeriodicPatchedDoc(pr.gap, pr.height - pr.k + pr.row, 2 * pr.height),
                  pr.height - pr.k, pr.width, pr.height)

FindOverlapProbe(kind, height, width, k, row, side, gap) ==
    [fn |-> "find_overlap", kind |-> kind, height |-> height, width |-> width,
     k |-> k, row |-> row, side |-> side, gap |-> gap, done |-> FALSE, result |-> 0]

\* a width at which a row has 17 sampled pixels, 5 of them in the first block
NoisyWidth == 68

ProbeHeightsSet == 32..(32 + ProbeHeights)

\* heights below the least height find_overlap works on
DegenerateHeights == {0, 1, 31}

\* the pairs with a changed row are taken at every eighth height
\* heights with height/6 < 8
EchoHeights == {32, 40, 47}

CursorHeights == {h \in ProbeHeightsSet : h % 8 = 0}

ProbeInputs ==
    UNION {{FindOverlapProbe("overlap", h, w, k, 0, "none", 0) :
               w \in ProbeWidths, k \in OverlapSizes(h)} : h \in ProbeHeightsSet}
    \cup UNION {{FindOverlapProbe("cursor", h, 20, k, row, side, 0) :
                   row \in 0..(k - 1),
                   side \in {"A", "B", "A_inverted", "B_inverted"}} :
                 h \in CursorHeights, k \in {8, 20, 26}}
    \cup {FindOverlapProbe("disjoint", h, w, 0, 0, "none", gap) :
        h \in ProbeHeightsSet, w \in DisjointWidths, gap \in 0..ProbeGaps}
    \cup {FindOverlapProbe("striped", h, 20, k, stride, "B", 0) :
        h \in CursorHeights, k \in {8, 20, 26}, stride \in {3, 5, 7, 9}}
    \cup {FindOverlapProbe("periodic", h, 20, 20, row, "B", period) :
        h \in CursorHeights, row \in {0, 4, 9, 13, 19, 25}, period \in {3, 7}}
    \cup {FindOverlapProbe("echo", h, 20, h - 2, 0, "none", 0) : h \in EchoHeights}
    \cup {FindOverlapProbe("same", h, w, h, 0, "none", 0) :
        h \in ProbeHeightsSet \cup DegenerateHeights, w \in ProbeWidths \cup {0}}

InitProbe ==
    /\ scn \in {s \in Scenarios : s.name = "small"}
    /\ top = 0
    /\ frames = <<>>
    /\ frame_rgba = <<>>
    /\ step_count = 0
    /\ phase = "Capture"
    /\ scroll_capture_state = "None"
    /\ timer = "invalid"
    /\ stitched = None
    /\ stitch_calls = 0
    /\ editor_window = "None"
    /\ ticks = 0
    /\ scrolls = 0
    /\ last = NoTick
    /\ ctl_overlaps = <<>>
    /\ since_store = 0
    /\ AppIdle
    /\ log = <<>>
    /\ probe \in ProbeInputs

ProbeCall ==
    /\ probe.fn = "find_overlap"
    /\ ~probe.done
    /\ probe' = [probe EXCEPT
                   !.done = TRUE,
                   !.result = find_overlap(cgimage_to_rgba(ProbeA(probe)),
                                           cgimage_to_rgba(ProbeB(probe)),
                                           probe.width, probe.height)]
    /\ UNCHANGED <<scn, top, frames, frame_rgba, step_count, phase,
                   scroll_capture_state, timer, stitched, stitch_calls, editor_window,
                   ticks, scrolls, last, ctl_overlaps, log, since_store>>
    /\ UNCHANGED app_vars

SpecProbe == InitProbe /\ [][ProbeCall]_vars

----------------------------------------------------------------------------
(* estimate_overlap on two frames of one height taken from one document, the
   second `shift` rows below the first, or above it where the content has
   moved back between the two captures *)

EstimateHeights == {14, 15, 16, 24, 32}

EstimateDocs(h) == {UniqueDoc(3 * h), BlankDoc(3 * h), PeriodicDoc(6, 3 * h)}

EstimateInputs ==
    UNION {{[fn |-> "estimate_overlap", doc |-> doc, height |-> h, width |-> 20,
             shift |-> shift, done |-> FALSE, result |-> 0] :
              doc \in EstimateDocs(h), shift \in (-EstBack)..h} :
           h \in EstimateHeights}

EstimatePrev(pr) == Image(pr.doc, EstBack, pr.width, pr.height)
EstimateCurr(pr) == Image(pr.doc, EstBack + pr.shift, pr.width, pr.height)

InitEstimate ==
    /\ scn \in {s \in Scenarios : s.name = "small"}
    /\ top = 0
    /\ frames = <<>>
    /\ frame_rgba = <<>>
    /\ step_count = 0
    /\ phase = "Capture"
    /\ scroll_capture_state = "None"
    /\ timer = "invalid"
    /\ stitched = None
    /\ stitch_calls = 0
    /\ editor_window = "None"
    /\ ticks = 0
    /\ scrolls = 0
    /\ last = NoTick
    /\ ctl_overlaps = <<>>
    /\ since_store = 0
    /\ AppIdle
    /\ log = <<>>
    /\ probe \in EstimateInputs

EstimateCall ==
    /\ probe.fn = "estimate_overlap"
    /\ ~probe.done
    /\ probe' = [probe EXCEPT
                   !.done = TRUE,
                   !.result = estimate_overlap(EstimatePrev(probe), EstimateCurr(probe),
                                               probe.height)]
    /\ UNCHANGED <<scn, top, frames, frame_rgba, step_count, phase,
                   scroll_capture_state, timer, stitched, stitch_calls, editor_window,
                   ticks, scrolls, last, ctl_overlaps, log, since_store>>
    /\ UNCHANGED app_vars

SpecEstimate == InitEstimate /\ [][EstimateCall]_vars

----------------------------------------------------------------------------
(* find_overlap_sad called on a pair of frames *)

SadHeights == {32, 40, 48, 66}

SadInputs ==
    {[pr EXCEPT !.fn = "find_overlap_sad"] : pr \in
        {FindOverlapProbe("noisy", h, w, k, rows, "B", 0) :
            h \in {40, 48, 66}, w \in {20, NoisyWidth}, k \in {20, 30},
            rows \in {0, 5, 6, 7}}
        \cup {FindOverlapProbe("overlap", h, w, k, 0, "none", 0) :
            h \in SadHeights, w \in {10, 20}, k \in {8, 20, 26}}
        \cup {FindOverlapProbe("disjoint", h, w, 0, 0, "none", gap) :
            h \in SadHeights, w \in DisjointWidths, gap \in {0, 2}}
        \cup {FindOverlapProbe("back", h, 20, h, 0, "none", gap) :
            h \in {48, 66}, gap \in 0..3}
        \cup {FindOverlapProbe("same", h, w, h, 0, "none", 0) :
            h \in {0, 3, 31, 32}, w \in {0, 1, 20}}}

InitSad ==
    /\ scn \in {s \in Scenarios : s.name = "small"}
    /\ top = 0
    /\ frames = <<>>
    /\ frame_rgba = <<>>
    /\ step_count = 0
    /\ phase = "Capture"
    /\ scroll_capture_state = "None"
    /\ timer = "invalid"
    /\ stitched = None
    /\ stitch_calls = 0
    /\ editor_window = "None"
    /\ ticks = 0
    /\ scrolls = 0
    /\ last = NoTick
    /\ ctl_overlaps = <<>>
    /\ since_store = 0
    /\ AppIdle
    /\ log = <<>>
    /\ probe \in SadInputs

SadCall ==
    /\ probe.fn = "find_overlap_sad"
    /\ ~probe.done
    /\ probe' = [probe EXCEPT
                   !.done = TRUE,
                   !.result = find_overlap_sad(cgimage_to_rgba(ProbeA(probe)),
                                               cgimage_to_rgba(ProbeB(probe)),
                                               probe.width, probe.height)]
    /\ UNCHANGED <<scn, top, frames, frame_rgba, step_count, phase,
                   scroll_capture_state, timer, stitched, stitch_calls, editor_window,
                   ticks, scrolls, last, ctl_overlaps, log, since_store>>
    /\ UNCHANGED app_vars

SpecSad == InitSad /\ [][SadCall]_vars

----------------------------------------------------------------------------
(* stitch_frames called twice on a list of frames taken from one document,
   each frame a number of rows below the one before *)

StitchMaxFrames == 3

\* width and height of the frames of one list
StitchSizes == {<<20, 32>>, <<0, 32>>, <<20, 0>>}

\* rows between the tops of consecutive frames: the same frame again, a
\* quarter, a half, a whole frame
StitchSteps(h) == {0, h \div 4, h \div 2, h}

StitchDocs == {UniqueDoc(6 * 32), BlankDoc(6 * 32)}

RECURSIVE StepLists(_, _)
\* the sequences of n steps
StepLists(n, h) ==
    IF n = 0 THEN {<<>>}
    ELSE {Append(sl, st) : sl \in StepLists(n - 1, h), st \in StitchSteps(h)}

\* the frames at the tops the steps lead to, from top 0
FramesAt(doc, w, h, steps) ==
    [i \in 1..(Len(steps) + 1) |->
        Image(doc, SumTo([j \in 0..(i - 2) |-> steps[j + 1]], i - 1), w, h)]

\* the frame lists: none, one frame, or 2..StitchMaxFrames frames; an empty
\* frame size is taken only for lists the code composes itself
StitchFrameLists ==
    {<<>>}
    \cup UNION {{FramesAt(doc, sz[1], sz[2], steps) :
                    steps \in UNION {StepLists(n, sz[2]) :
                                       n \in (IF sz[1] = 0 \/ sz[2] = 0 THEN 1 ELSE 0)
                                              ..(StitchMaxFrames - 1)}} :
                 doc \in StitchDocs, sz \in StitchSizes}

\* rgba_data for a frame list: one buffer per frame, one too few, one too many
StitchBuffers(fs) ==
    LET data == [i \in 1..Len(fs) |-> cgimage_to_rgba(fs[i])]
    IN {data, Append(data, cgimage_to_rgba(Image(UniqueDoc(32), 0, 20, 32)))}
       \cup (IF Len(fs) = 0 THEN {} ELSE {SubSeq(data, 1, Len(fs) - 1)})

\* frames: &[CFRetained<CGImage>], rgba_data: &[Vec<u8>]: the call reads its
\* arguments through shared borrows and leaves them as they were
after_call_mut(arg) == <<>>
after_call(arg) == arg

\* the rows r with from <= r < to of a buffer, as row ids
RowsOf(data, from, to) ==
    IF to <= from THEN <<>> ELSE [r \in 1..(to - from) |-> BufRow(data, from + r - 1)]

RECURSIVE CanvasRows(_, _)
\* the rows of the canvas after the copies segs, top row first
CanvasRows(segs, rgba_data) ==
    IF segs = <<>> THEN <<>>
    ELSE RowsOf(rgba_data[Head(segs).frame], Head(segs).from, Head(segs).to)
         \o CanvasRows(Tail(segs), rgba_data)

\* the image returned and its rows, or None
StitchOutput(image, rgba_data) ==
    IF image = None THEN None
    ELSE Some([image |-> image[1], rows |-> CanvasRows(image[1].segs, rgba_data)])

InitStitch ==
    /\ scn \in {s \in Scenarios : s.name = "small"}
    /\ top = 0
    /\ frames \in StitchFrameLists
    /\ frame_rgba \in StitchBuffers(frames)
    /\ step_count = 0
    /\ phase = "Capture"
    /\ scroll_capture_state = "None"
    /\ timer = "invalid"
    /\ stitched = None
    /\ stitch_calls = 0
    /\ editor_window = "None"
    /\ ticks = 0
    /\ scrolls = 0
    /\ last = NoTick
    /\ ctl_overlaps = <<>>
    /\ since_store = 0
    /\ AppIdle
    /\ log = <<>>
    /\ probe = [fn |-> "stitch_frames", frames |-> frames, rgba_data |-> frame_rgba,
                outputs |-> <<>>]

StitchCall ==
    /\ probe.fn = "stitch_frames"
    /\ stitch_calls < 2
    /\ stitched' = stitch_frames(frames, frame_rgba)
    /\ stitch_calls' = stitch_calls + 1
    /\ probe' = [probe EXCEPT !.outputs = Append(@, StitchOutput(stitched', frame_rgba))]
    /\ frames' = after_call(frames)
    /\ frame_rgba' = after_call(frame_rgba)
    /\ UNCHANGED <<scn, top, step_count, phase, scroll_capture_state, timer,
                   editor_window, ticks, scrolls, last, ctl_overlaps, log, since_store>>
    /\ UNCHANGED app_vars

SpecStitch == InitStitch /\ [][StitchCall]_vars

----------------------------------------------------------------------------
(* Properties of the session controller *)

\* height of the last frame that was stored before the last tick
PrevHeight == last.frames[Len(last.frames)].h

\* the image the last tick captured (the world has not moved since)
LastFrame == Image(scn.doc, last.top, pixel_w, pixel_h)

\* the last tick ran in the Capture phase with a stored frame to compare with,
\* got its image and its RGBA buffer, and estimated the overlap
ComparedCapture ==
    last.phase = "Capture" /\ last.converted /\ Len(last.frames) >= 1

\* C1: whatever the captures and overlaps, a session has ended by its
\* 2*(max_steps+1)-th tick: the tick count never exceeds that bound, a session
\* that still exists has not reached it, and a tick that reaches it returned false.
C1_TickBound ==
    /\ ticks <= 2 * (max_steps + 1)
    /\ scroll_capture_state = "Some" => ticks < 2 * (max_steps + 1) /\ timer = "valid"
    /\ ticks = 2 * (max_steps + 1) => ~last.ret

C1_Witness ==
    ticks = 2 * (max_steps + 1) /\ ~last.ret /\ max_steps = DefaultMaxSteps

\* C2: a Capture tick whose overlap against the last stored frame is at
\* least frame_height*19/20 returns false and stores nothing.
C2_DuplicateNotStored ==
    (ComparedCapture /\ last.overlap >= (PrevHeight * 19) \div 20)
        => /\ ~last.ret
           /\ frames = last.frames
           /\ frame_rgba = last.frame_rgba

C2_Witness ==
    /\ ComparedCapture
    /\ last.overlap = (PrevHeight * 19) \div 20
    /\ PrevHeight >= 32
    /\ ~last.ret
    /\ frames = last.frames

\* C3 as stated: with an overlap strictly between frame_height*4/5 and
\* frame_height*19/20 the tick appends the frame and its buffer and returns
\* false; with an overlap equal to frame_height*4/5 it does not terminate.
C3_Original ==
    ComparedCapture =>
        /\ (last.overlap > (PrevHeight * 4) \div 5
            /\ last.overlap < (PrevHeight * 19) \div 20)
              => /\ frames = Append(last.frames, LastFrame)
                 /\ frame_rgba = Append(last.frame_rgba, cgimage_to_rgba(LastFrame))
                 /\ ~last.ret
        /\ last.overlap = (PrevHeight * 4) \div 5 => last.ret

\* C4 as stated: a successful capture that is the first frame, or whose
\* overlap is at most frame_height*4/5, is appended, the phase becomes Scroll
\* and the tick returns true.
C4_Original ==
    (/\ last.phase = "Capture"
     /\ last.converted
     /\ Len(last.frames) = 0 \/ last.overlap <= (PrevHeight * 4) \div 5)
        => /\ frames = Append(last.frames, LastFrame)
           /\ phase = "Scroll"
           /\ last.ret

\* C5: a Capture tick that gets no image, or no RGBA buffer, returns true,
\* switches to Scroll and leaves frames, frame_rgba and step_count alone; the
\* session goes on.
C5_FailureRetries ==
    (last.phase = "Capture" /\ ~last.converted)
        => /\ last.ret
           /\ phase = "Scroll"
           /\ frames = last.frames
           /\ frame_rgba = last.frame_rgba
           /\ step_count = last.step_count
           /\ scroll_capture_state = "Some"

C5_Witness ==
    /\ last.phase = "Capture"
    /\ last.captured
    /\ ~last.converted
    /\ Len(frames) >= 1
    /\ phase = "Scroll"

\* C6: a Scroll tick increments step_count; past max_steps it returns false
\* and injects no scroll, otherwise it injects one scroll, switches to Capture
\* and returns true; a session never injects more than max_steps scrolls.
C6_ScrollPhase ==
    /\ scrolls <= max_steps
    /\ last.phase = "Scroll" =>
          /\ step_count = last.step_count + 1
          /\ IF step_count > max_steps
             THEN ~last.ret /\ scrolls = last.scrolls /\ top = last.top
             ELSE last.ret /\ scrolls = last.scrolls + 1 /\ phase = "Capture"

C6_Witness ==
    last.phase = "Scroll" /\ ~last.ret /\ scrolls = max_steps

\* every Capture tick of the session got and converted its image: the capture
\* ticks are the ticks that did not count a step
AllCapturesSucceeded ==
    IF last.phase = "Capture" /\ last.converted /\ ~last.ret
    THEN Len(log) >= ticks - step_count - 1
    ELSE Len(log) = ticks - step_count

\* no overlap the session computed exceeded frame_height*4/5
NoOverlapAboveNearEnd ==
    /\ \A i \in 1..Len(ctl_overlaps) : ctl_overlaps[i] <= (log[1].h * 4) \div 5
    /\ ComparedCapture => last.overlap <= (PrevHeight * 4) \div 5

\* C7 as stated: when every capture succeeds and no overlap exceeds the 80%
\* threshold, the session ends right after its max_steps-th scroll, with
\* every frame it stored.
C7_Original ==
    (/\ scroll_capture_state = "None"
     /\ ~last.ret
     /\ AllCapturesSucceeded
     /\ NoOverlapAboveNearEnd)
        => /\ scrolls = max_steps
           /\ last.phase = "Scroll"
           /\ frames = log

----------------------------------------------------------------------------
(* Properties of the controller together with the stitcher *)

\* rows two windows of a document of unlike rows share, b at or below a
GroundTruthOverlap(a, b) == Max2(0, a.top + a.h - b.top)

\* the session's first three captures all succeeded, the third was the last
\* tick, and their ground-truth overlaps are o1 and then o2
ThreeCaptures(o1, o2) ==
    /\ scn.doc.kind = "unique"
    /\ ticks = 5
    /\ last.phase = "Capture"
    /\ last.converted
    /\ Len(last.frames) = 2
    /\ GroundTruthOverlap(last.frames[1], last.frames[2]) = o1
    /\ GroundTruthOverlap(last.frames[2], LastFrame) = o2

RetinaSelection ==
    selection.w = 800 /\ selection.h = 600 /\ scale_factor = 2

\* C8 as stated: selection 800x600 at scale 2.0 with overlaps of 200 and then
\* 550 rows (counted in pixel rows or in points) ends on the third capture,
\* after 2 scrolls, with a canvas of 1050 rows.
C8_Original ==
    (RetinaSelection /\ (ThreeCaptures(200, 550) \/ ThreeCaptures(400, 1100)))
        => /\ ~last.ret
           /\ scrolls = 2
           /\ stitched # None
           /\ stitched[1].height = 1050

\* C8 amended: the frames are 1200 pixel rows high; with ground-truth
\* overlaps of 400 and then 1100 pixel rows the third capture ends the session
\* (1100 > 1200*4/5 = 960) after exactly 2 scrolls, all three frames are
\* stitched, and the canvas has 1200+(1200-400)+(1200-1100) = 2100 rows.
C8_Amended ==
    (RetinaSelection /\ ThreeCaptures(400, 1100))
        => /\ pixel_h = 1200
           /\ ~last.ret
           /\ scrolls = 2
           /\ step_count = 2
           /\ Len(frames) = 3
           /\ stitched # None
           /\ stitched[1].width = 1600
           /\ stitched[1].height = 2100
           /\ stitched[1].overlaps = <<400, 1100>>

C8_Witness ==
    /\ RetinaSelection
    /\ ThreeCaptures(400, 1100)
    /\ scroll_capture_state = "None"
    /\ stitched # None
    /\ stitched[1].height = 2100

WellOverlapped(i) ==
    /\ scn.doc.kind = "unique"
    /\ log[i].h >= 32
    /\ log[i].h = log[1].h
    /\ log[i + 1].h = log[1].h
    /\ GroundTruthOverlap(log[i], log[i + 1]) >= Max2(10, log[i].h \div 6)

----------------------------------------------------------------------------
(* Properties of find_overlap *)

\* C10 as stated: for every height >= 32 and every k in
\* {8, 20, height/3, height*4/5}, find_overlap returns k on a pair with a
\* true overlap of k rows.
C10_Original ==
    (probe.fn = "find_overlap" /\ probe.kind = "overlap" /\ probe.done) => probe.result = probe.k

\* C10 amended: find_overlap returns k for each of the listed k that is at
\* least height/6, the distance of the reference row from the bottom of A;
\* for a smaller k the reference row is outside the overlap and the result
\* is 0.
C10_Amended ==
    (probe.fn = "find_overlap" /\ probe.kind = "overlap" /\ probe.done) =>
        IF probe.k >= probe.height \div 6
        THEN probe.result = probe.k
        ELSE probe.result = 0

C10_Witness ==
    /\ probe.fn = "find_overlap"
    /\ probe.kind = "overlap"
    /\ probe.done
    /\ probe.k = 8
    /\ probe.height \div 6 = 8
    /\ probe.result = 8

\* a finished call of find_overlap on a pair of the given kind
Probed(kind) == probe.fn = "find_overlap" /\ probe.kind = kind /\ probe.done

\* C11 as stated: in a pair with a true overlap of k rows, one changed row
\* in the overlap band of one frame, at any place of the band, the
\* reference row included, does not make find_overlap return less than k.
C11_Original ==
    Probed("cursor") => probe.result >= probe.k

\* C12 as stated: find_overlap returns 0 whenever no row of A is
\* byte-identical to any row of B.
C12_Original ==
    Probed("disjoint") => probe.result = 0

\* the rows with ids ida and idb differ by more than 15 per channel, in the
\* mean over every 4th pixel left of the right 5% of the columns
RowsFarApart(ida, idb, width) ==
    RowSad(ida, idb, width, SatSub(width, width \div 20), 4)
        > 15 * (RowSamples(width, SatSub(width, width \div 20), 4) * 3)

\* every row of A is that far from every row of B
FramesFarApart(a, b) ==
    \A ida \in {DocRow(a.doc, a.top + r) : r \in 0..(a.h - 1)} :
        \A idb \in {DocRow(b.doc, b.top + r) : r \in 0..(b.h - 1)} :
            RowsFarApart(ida, idb, a.w)

\* C12 amended: find_overlap returns 0 whenever every row of A differs from
\* every row of B by a mean absolute channel difference above 15 over the
\* pixels the fallback samples; rows that are merely not byte-identical can
\* be matched by the fallback.
C12_Amended ==
    (Probed("disjoint") /\ FramesFarApart(ProbeA(probe), ProbeB(probe)))
        => probe.result = 0

C12_Witness ==
    /\ Probed("disjoint")
    /\ probe.width = 64
    /\ probe.height = 60
    /\ probe.gap = 2
    /\ FramesFarApart(ProbeA(probe), ProbeB(probe))
    /\ probe.result = 0

\* C13: whatever the input, the value find_overlap returns, from the
\* row-hash tier or from the intensity fallback, is at least 0 and at most
\* height.
C13_OverlapBounded ==
    (probe.fn = "find_overlap" /\ probe.done) =>
        /\ probe.result >= 0
        /\ probe.result <= probe.height

\* the fallback places the strip so low in B that height - ref_start +
\* best_pos passes height, and the result is height
C13_Witness ==
    /\ Probed("disjoint")
    /\ probe.width = 10
    /\ probe.height = 60
    /\ probe.gap = 2
    /\ probe.result = probe.height

----------------------------------------------------------------------------
(* Properties of stitch_frames *)

\* stitch_frames has returned an image for n >= 2 frames of one size
Stitched == probe.fn = "stitch_frames" /\ stitch_calls >= 1 /\ stitched # None

\* C14: for n >= 2 frames of one size the canvas is as wide as a frame and
\* frame_height + the sum over the pairs of max(0, frame_height - overlap_i)
\* rows high; the write cursor ends at that height, and the rows written are
\* that many.
C14_CanvasHeight ==
    (Stitched /\ Len(probe.frames) >= 2) =>
        LET img == stitched[1]
            h == probe.frames[1].h
            n == Len(probe.frames)
        IN /\ Len(img.overlaps) = n - 1
           /\ img.width = probe.frames[1].w
           /\ img.height
                = h + SumTo([i \in 0..(n - 2) |-> Max2(0, h - img.overlaps[i + 1])], n - 1)
           /\ img.current_row = img.height
           /\ Len(CanvasRows(img.segs, probe.rgba_data)) = img.height

C14_Witness ==
    /\ Stitched
    /\ Len(probe.frames) = 3
    /\ stitched[1].overlaps = <<24, 32>>
    /\ stitched[1].height = 40
    /\ stitched[1].current_row = 40

RECURSIVE KeptRows(_, _, _, _)
\* rows [overlaps[i], height) of frame i + 1, for i = first..Len(overlaps)
KeptRows(rgba_data, overlaps, height, first) ==
    IF first > Len(overlaps) THEN <<>>
    ELSE RowsOf(rgba_data[first + 1], overlaps[first], height)
         \o KeptRows(rgba_data, overlaps, height, first + 1)

\* C15: the canvas is every row of frame 0 in order, then for each later
\* frame i+1, in capture order, its rows [overlap_i, height) in order: the
\* head of a frame is dropped, never its tail, and a frame whose overlap is
\* the whole height adds nothing.
C15_CanvasRows ==
    (Stitched /\ Len(probe.frames) >= 2) =>
        LET img == stitched[1]
            h == probe.frames[1].h
        IN /\ CanvasRows(img.segs, probe.rgba_data)
                = RowsOf(probe.rgba_data[1], 0, h)
                  \o KeptRows(probe.rgba_data, img.overlaps, h, 1)
           /\ \A i \in 1..Len(img.overlaps) :
                 img.overlaps[i] >= h => \A k \in 1..Len(img.segs) : img.segs[k].frame # i + 1

\* frame 2 gives its last 8 rows, frame 3 (frame 2 again) none
C15_Witness ==
    /\ Stitched
    /\ probe.frames[1].doc.kind = "unique"
    /\ Len(probe.frames) = 3
    /\ stitched[1].overlaps = <<24, 32>>
    /\ CanvasRows(stitched[1].segs, probe.rgba_data) = [r \in 1..40 |-> r]

\* stitch_frames has returned
StitchReturned == probe.fn = "stitch_frames" /\ stitch_calls >= 1

----------------------------------------------------------------------------
(* Properties of the host callbacks *)

\* the last callback was a tick
LastWasTick == last.phase \in {"Capture", "Scroll"}

\* C18: a tick that returned false leaves no session and no valid timer behind
\* (the host stops the session in the same callback), and every tick runs on
\* an existing session with a valid timer whose previous tick returned true.
C18_StoppedAtOnce ==
    /\ [](LastWasTick /\ ~last.ret
            => scroll_capture_state = "None" /\ timer = "invalid")
    /\ [](timer = "valid" <=> scroll_capture_state = "Some")
    /\ [][ticks' = ticks + 1
            => scroll_capture_state = "Some" /\ timer = "valid" /\ last.ret]_vars

C18_Witness ==
    /\ LastWasTick
    /\ ~last.ret
    /\ last.phase = "Capture"
    /\ Len(frames) >= 2
    /\ scroll_capture_state = "None"
    /\ timer = "invalid"

\* C19: a session that ends, by a tick returning false or by the stop hotkey
\* between two ticks, holding at least one frame has had stitch_frames called
\* exactly once, on the frames gathered so far; one that ends with no frame has
\* had no stitch_frames call and no editor; a running session has had none.
C19_StitchedOnce ==
    /\ stitch_calls <= 1
    /\ scroll_capture_state = "Some" => stitch_calls = 0 /\ stitched = None
    /\ (scroll_capture_state = "None" /\ Len(frames) >= 1)
          => /\ stitch_calls = 1
             /\ stitched = stitch_frames(frames, frame_rgba)
    /\ (scroll_capture_state = "None" /\ Len(frames) = 0)
          => /\ stitch_calls = 0
             /\ stitched = None
             /\ editor_window = "None"

C19_Witness ==
    /\ last.phase = "hotkey"
    /\ phase = "Capture"
    /\ Len(frames) >= 2
    /\ scroll_capture_state = "None"
    /\ stitch_calls = 1
    /\ editor_window = "Some"

\* C20: a session starts in phase Capture, and a tick that returns true leaves
\* the session in the other phase than the one it ran in, so that no two
\* consecutive ticks run in the same phase.
C20_PhasesAlternate ==
    /\ (scroll_capture_state = "Some" /\ ticks = 0) => phase = "Capture"
    /\ (LastWasTick /\ last.ret)
          => /\ phase \in {"Capture", "Scroll"}
             /\ phase # last.phase
    /\ (scroll_capture_state = "Some" /\ ticks > 0)
          => phase = (IF ticks % 2 = 1 THEN "Scroll" ELSE "Capture")

C20_Witness ==
    /\ LastWasTick
    /\ last.ret
    /\ last.phase = "Capture"
    /\ ~last.converted
    /\ phase = "Scroll"
    /\ ticks >= 3

----------------------------------------------------------------------------
(* Properties of the frame list *)

\* seq is the start of longer
IsPrefix(seq, longer) ==
    Len(seq) <= Len(longer) /\ SubSeq(longer, 1, Len(seq)) = seq

\* C21: while a session lasts its frame list only grows at the end: every
\* step leaves the frames it held where they were and adds at most one, so
\* that the list of any earlier state is a prefix of the current one; the
\* list is the frames stored, in the order they were stored.
C21_AppendOnly ==
    /\ [][scroll_capture_state = "Some" =>
             /\ IsPrefix(frames, frames')
             /\ Len(frames') <= Len(frames) + 1
             /\ (frames' # frames => ticks' = ticks + 1)]_vars
    /\ [](frames = log)

C21_Witness ==
    /\ scroll_capture_state = "Some"
    /\ Len(frames) >= 3
    /\ IsPrefix(last.frames, frames)
    /\ Len(last.frames) = Len(frames) - 1
    /\ frames[1] # frames[2]
    /\ frames[2] # frames[3]

\* C22 as stated: in every reachable state all frames of the session are as
\* wide and as high as the first one, whatever the capture service returned
\* on the later ticks.
C22_Original ==
    \A i \in 1..Len(frames) :
        frames[i].w = frames[1].w /\ frames[i].h = frames[1].h

----------------------------------------------------------------------------
(* Properties of the scrolling *)

\* the last tick stored a frame after an earlier one
StoredNext ==
    /\ LastWasTick
    /\ last.phase = "Capture"
    /\ Len(last.frames) >= 1
    /\ Len(frames) = Len(last.frames) + 1

\* C23 as stated: between two frames stored one after the other exactly one
\* scroll was injected, so that they overlap by at least a third of the
\* frame height, also when a capture or a conversion failed between them.
C23_Original ==
    StoredNext =>
        /\ last.since_store = 1
        /\ 3 * GroundTruthOverlap(frames[Len(frames) - 1], frames[Len(frames)])
              >= frames[Len(frames) - 1].h

----------------------------------------------------------------------------
(* Properties of estimate_overlap *)

\* C24 as stated: the overlap estimate_overlap computes for the stop decision
\* lies in 0..frame_height, for every pair of frames of that height.
C24_Original ==
    (probe.fn = "estimate_overlap" /\ probe.done) =>
        /\ probe.result >= 0
        /\ probe.result <= probe.height

----------------------------------------------------------------------------
(* Properties of the two tiers of find_overlap *)

\* find_overlap has returned on frames it does not turn away at once
Searched == probe.fn = "find_overlap" /\ probe.done /\ probe.height >= 32 /\ probe.width > 0

\* the best candidate of the row-hash search on the pair
ProbeBest ==
    tier1_best(cgimage_to_rgba(ProbeA(probe)), cgimage_to_rgba(ProbeB(probe)),
               probe.width * 4, 0, SatSub(probe.width, probe.width \div 20) * 4,
               probe.height)

\* what the intensity fallback returns on the pair
ProbeSad ==
    find_overlap_sad(cgimage_to_rgba(ProbeA(probe)), cgimage_to_rgba(ProbeB(probe)),
                     probe.width, probe.height)

\* the candidate's longest run is at least 8 or its matches are at least
\* max(8, K/4)
MeetsBar(c) == c.run >= 8 \/ c.matches >= Max2(8, c.overlap \div 4)

ProbeHash(img, row) ==
    hash_row(cgimage_to_rgba(img), row, probe.width * 4, 0,
             SatSub(probe.width, probe.width \div 20) * 4)

\* every candidate K = j + height/6 in 1..height for a row j of B whose hash
\* is that of the reference row of A, with the scan of its band of K rows
ProbeCandidates ==
    LET h == probe.height
        ref_hash == ProbeHash(ProbeA(probe), h - h \div 6)
        hb == [r \in 0..(h - 1) |-> ProbeHash(ProbeB(probe), r)]
        ha == [r \in 0..(h - 1) |-> ProbeHash(ProbeA(probe), r)]
    IN {band_score(K, {r \in 0..(K - 1) : ha[h - K + r] = hb[r]}) :
          K \in {j + h \div 6 : j \in {r \in 0..(h - 1) : hb[r] = ref_hash}} \cap (1..h)}

StripDiff(c) ==
    LET h == probe.height
        w == probe.width
        strip_rows == Min2(10, h \div 4)
        ref_start == Min2(SatSub(h - h \div 6, strip_rows \div 2), h - strip_rows)
        a == cgimage_to_rgba(ProbeA(probe))
        b == cgimage_to_rgba(ProbeB(probe))
        limit == SatSub(w, w \div 20)
    IN <<SumTo([r \in 0..(strip_rows - 1) |->
                  RowSad(BufRow(a, ref_start + r), BufRow(b, c + r), w, limit, 4)],
               strip_rows),
         3 * strip_rows * RowSamples(w, limit, 4)>>

\* the candidate positions of the strip in B
StripPositions ==
    0..SatSub((probe.height * 19) \div 20, Min2(10, probe.height \div 4))

\* the positions of the least mean difference
StripBest ==
    LET diff == [c \in StripPositions |-> StripDiff(c)]
    IN {c \in StripPositions :
          \A d \in StripPositions : diff[c][1] * diff[d][2] <= diff[d][1] * diff[c][2]}

\* the overlap of the strip placed at row c of B
StripOverlap(c) ==
    LET h == probe.height
        strip_rows == Min2(10, h \div 4)
        ref_start == Min2(SatSub(h - h \div 6, strip_rows \div 2), h - strip_rows)
    IN Min2(h, h - ref_start + c)

\* the fallback has run on a pair with a strip of at least one row and at
\* least one sampled pixel a row
Fallback ==
    /\ probe.fn = "find_overlap_sad"
    /\ probe.done
    /\ probe.height >= 4
    /\ RowSamples(probe.width, SatSub(probe.width, probe.width \div 20), 4) > 0

\* C27 as stated: the fallback returns 0 unless the least mean difference is
\* below 15, and otherwise the overlap of a position of the least mean.
C27_Original ==
    Fallback =>
        \E c \in StripBest :
            probe.result = (IF StripDiff(c)[1] < 15 * StripDiff(c)[2]
                            THEN StripOverlap(c) ELSE 0)

\* C27, amended: when the row-hash tier is not accepted, the fallback returns
\* 0 unless the least mean per-channel absolute difference over the strip
\* positions is at most 15, and otherwise height - ref_start + best_pos capped
\* at height, for a position best_pos of the least mean.
C27_Amended ==
    Fallback =>
        \E c \in StripBest :
            probe.result = (IF StripDiff(c)[1] <= 15 * StripDiff(c)[2]
                            THEN StripOverlap(c) ELSE 0)

\* a strip placed below its row in A gives an overlap capped at height
C27_Capped ==
    /\ Fallback
    /\ probe.kind = "back"
    /\ \E c \in StripBest :
          probe.height - sad_ref_start(probe.height, 10) + c > probe.height
    /\ probe.result = probe.height

\* a strip whose least mean difference is exactly 15 is accepted
C27_Witness ==
    /\ Fallback
    /\ probe.kind = "noisy"
    /\ \E c \in StripBest : StripDiff(c)[1] = 15 * StripDiff(c)[2]
    /\ probe.result = probe.k

\* C28: frames and frame_rgba have the same length in every state of a
\* session, element i of frame_rgba is the buffer converted from element i of
\* frames, and a frame and its buffer are stored by the same tick.
C28_ParallelBuffers ==
    /\ [](/\ Len(frame_rgba) = Len(frames)
          /\ \A i \in 1..Len(frames) : frame_rgba[i] = cgimage_to_rgba(frames[i]))
    /\ [][Len(frames') > Len(frames) \/ Len(frame_rgba') > Len(frame_rgba) =>
             /\ ticks' = ticks + 1
             /\ frames' = Append(frames, frames'[Len(frames')])
             /\ frame_rgba' = Append(frame_rgba, cgimage_to_rgba(frames'[Len(frames')]))]_vars

C28_Witness ==
    /\ scroll_capture_state = "Some"
    /\ last.converted
    /\ Len(frames) = 2
    /\ Len(frame_rgba) = 2
    /\ Len(last.frame_rgba) = 1
    /\ frame_rgba[1] # frame_rgba[2]
    /\ frame_rgba[2] = cgimage_to_rgba(frames[2])
    /\ frames[2].top > frames[1].top

\* C29 as stated: if at least one candidate K of the row-hash tier has a
\* longest run of at least 8 or at least max(8, K/4) matching rows,
\* find_overlap returns a candidate of the row-hash tier that meets that bar.
C29_Original ==
    Searched /\ (\E c \in ProbeCandidates : MeetsBar(c)) =>
        \E c \in ProbeCandidates : MeetsBar(c) /\ probe.result = c.overlap

\* C30 as stated: in every state the application reaches through hotkey,
\* menu, selection and timer events, scroll_capture_state and recording_state
\* are not both Some.
C30_Original == ~(scroll_capture_state = "Some" /\ recording_state = "Some")

====
